---- MODULE Spec2Model ----
(***************************************************************************)
(* The conversation session controller (AnalysisAgentPage) and the         *)
(* streaming response consumer (messagesApi.generateAgentResponseStream),  *)
(* as one state machine.  Every await of the source is a point where the   *)
(* other tasks (stream reads, the message reload, user actions) may run.   *)
(*                                                                         *)
(* Strings are sequences of tokens, so that concatenation and formatting   *)
(* are computed, not assumed.  A nullable value is <<>> (null) or <<v>>.   *)
(***************************************************************************)
EXTENDS Integers, Sequences, FiniteSets, TLC

\* Bounds of the model.
MaxStreams == 2
MaxFrames == 3

Null == <<>>
Some(x) == <<x>>
Val(v) == v[1]

ConvIds == {"c1", "c2"}
NewConvIds == {"c1"}
Prompts == {<<"p">>}
Contents == {<<"q">>}
StreamIds == 1..MaxStreams

\* Length of the prompt prefix used as the conversation title.
TitleLimit == 50

VARIABLES
    currentConversation,  \* useState<Conversation | null>
    messages,             \* useState<Message[]>
    isLoading,            \* useState(false)
    initialQuery,         \* useState('')
    hasStarted,           \* useState(false)
    workflowResult,       \* useState<any>(null)
    streamControllerRef,  \* useRef<{stop} | null>: the handle of a stream, or null
    pc,                   \* the await at which the submit handler in flight is suspended
    local,                \* that handler's captured values
    alert,                \* the failure reported by the last submit handler, or null
    streams,              \* one consumer task per generateAgentResponseStream call
    nStreams,             \* number of generateAgentResponseStream calls so far
    loads,                \* conversation ids whose loadMessages fetch is pending
    serverMsgs,           \* the user messages the backend has stored, in creation order
    frames,               \* frames served so far
    restCall,             \* the REST operation called last: its arguments and the response
    restResult,           \* what that call resolved with or threw
    wire,                 \* bytes of a stream response body not yet read
    got,                  \* bytes of that body read so far
    buffer,               \* `buffer` of the read loop
    delivered             \* events the read loop has handed to onEvent, in order

progVars == <<currentConversation, messages, isLoading, initialQuery, hasStarted,
              workflowResult, streamControllerRef, pc, local, alert, streams,
              nStreams, loads, serverMsgs, frames>>

\* The REST resource clients and the frame decoder are pure: they are exercised on
\* their own (SpecRest, SpecParse) and stay put in the runs of the controller.
restVars == <<restCall, restResult>>
parseVars == <<wire, got, buffer, delivered>>
pureVars == <<restVars, parseVars>>

vars == <<progVars, pureVars>>

ctrlVars == <<currentConversation, messages, workflowResult, streamControllerRef, loads>>
uiVars == <<isLoading, initialQuery, hasStarted, pc, local, alert>>

----------------------------------------------------------------------------
\* Entities

Message(id, cid, role, content) ==
    [id |-> id, conversation_id |-> cid, role |-> role, content |-> content]

\* const assistantId = `stream-${Date.now()}`: the clock reading is modelled by the
\* ordinal of the turn, two turns being separated by a user action and a request.
AssistantId(s) == <<"stream", s>>

AssistantPlaceholder(s, cid) == Message(AssistantId(s), cid, "assistant", <<>>)

\* Mutant: the ellipsis is added from 50 characters on, not from 51.
TitleOfEllipsisAtLimit(q) ==
    SubSeq(q, 1, IF Len(q) < TitleLimit THEN Len(q) ELSE TitleLimit)
        \o (IF Len(q) >= TitleLimit THEN <<".", ".", ".">> ELSE <<>>)

\* initialQuery.slice(0, 50) + (initialQuery.length > 50 ? '...' : '')
TitleOf(q) ==
    SubSeq(q, 1, IF Len(q) < TitleLimit THEN Len(q) ELSE TitleLimit)
        \o (IF Len(q) > TitleLimit THEN <<".", ".", ".">> ELSE <<>>)

NoLocal == [query |-> <<>>, conv |-> Null, content |-> <<>>]

IdleStream ==
    [pc |-> "none", aborted |-> FALSE, kind |-> "", convId |-> "",
     title |-> <<>>, status |-> "", any |-> FALSE, terminal |-> "", acc |-> <<>>]

----------------------------------------------------------------------------
\* Stream events (decoded frames)

BaseEvent ==
    [type |-> "status", partial |-> <<>>, assistant_message |-> Null,
     result |-> Null, workflow_result |-> Null, conversation_id |-> "",
     error |-> <<>>, final_output |-> <<>>]

PartialEvent(f) == [BaseEvent EXCEPT !.type = "partial", !.partial = f]
StatusEvent == BaseEvent
ErrorEvent(e) == [BaseEvent EXCEPT !.type = "error", !.error = e]
FinalEvent(am, res, wres, cid) ==
    [BaseEvent EXCEPT !.type = "final", !.assistant_message = am, !.result = res,
                      !.workflow_result = wres, !.conversation_id = cid]

ResultPayload(name, fo) == [name |-> name, final_output |-> fo]

\* The record the backend persists for the assistant's reply of stream s.
ServerAssistantMessage(s) ==
    Message(<<"asst", s>>, streams[s].convId, "assistant", <<"A">>)

Fragments == {<<"a">>, <<"b">>}

FinalEvents(s) ==
    { FinalEvent(Null, Some(ResultPayload("R", <<>>)), Null, ""),
      FinalEvent(Null, Some(ResultPayload("RF", <<"F">>)), Null, ""),
      FinalEvent(Some(ServerAssistantMessage(s)), Some(ResultPayload("R", <<>>)), Null, ""),
      FinalEvent(Null, Null, Some(ResultPayload("R", <<>>)), "c2") }

\* The frames the backend may put on stream s.
Frames(s) ==
    {PartialEvent(f) : f \in Fragments} \cup {StatusEvent}
        \cup {ErrorEvent(<<"boom">>)} \cup FinalEvents(s)

IsTerminal(ev) == ev.type \in {"final", "error"}

----------------------------------------------------------------------------
\* Event reconciliation (the onEvent callbacks of the two submit handlers)

\* Mutant: the fragment replaces the content instead of being appended to it.
ApplyPartialOverwrite(msgs, aid, ev) ==
    [i \in 1..Len(msgs) |->
        IF msgs[i].id = aid
        THEN [msgs[i] EXCEPT !.content = ev.partial]
        ELSE msgs[i]]

\* prev.map(m => m.id === assistantId ? { ...m, content: (m.content || '') + event.partial } : m)
ApplyPartial(msgs, aid, ev) ==
    [i \in 1..Len(msgs) |->
        IF msgs[i].id = aid
        THEN [msgs[i] EXCEPT !.content = @ \o ev.partial]
        ELSE msgs[i]]

\* const result = event.result || event.workflow_result || event
EventResult(ev) ==
    IF ev.result # Null THEN Val(ev.result)
    ELSE IF ev.workflow_result # Null THEN Val(ev.workflow_result)
    ELSE ev

\* Mutant: without a final_output the accumulated content is dropped
\* (content: result?.final_output).
ApplyFinalDropsContent(msgs, aid, ev) ==
    [i \in 1..Len(msgs) |->
        IF msgs[i].id # aid THEN msgs[i]
        ELSE IF ev.assistant_message # Null THEN Val(ev.assistant_message)
        ELSE [msgs[i] EXCEPT !.content = EventResult(ev).final_output]]

\* Mutant: the authoritative message only overwrites the placeholder's content; the
\* entry keeps its local identity.
ApplyFinalKeepsPlaceholder(msgs, aid, ev) ==
    [i \in 1..Len(msgs) |->
        IF msgs[i].id # aid THEN msgs[i]
        ELSE IF ev.assistant_message # Null
        THEN [msgs[i] EXCEPT !.content = Val(ev.assistant_message).content]
        ELSE [msgs[i] EXCEPT !.content =
                 IF EventResult(ev).final_output # <<>>
                 THEN EventResult(ev).final_output ELSE @]]

\* assistant_msg ? replace the entry : { ...m, content: result?.final_output || m.content }
ApplyFinal(msgs, aid, ev) ==
    [i \in 1..Len(msgs) |->
        IF msgs[i].id # aid THEN msgs[i]
        ELSE IF ev.assistant_message # Null THEN Val(ev.assistant_message)
        ELSE [msgs[i] EXCEPT !.content =
                 IF EventResult(ev).final_output # <<>>
                 THEN EventResult(ev).final_output ELSE @]]

\* `Error: ${event.error || 'An error occurred during analysis.'}`
ErrorContent(ev) ==
    <<"Error: ">> \o
        (IF ev.error # <<>> THEN ev.error ELSE <<"An error occurred during analysis.">>)

ApplyError(msgs, aid, ev) ==
    [i \in 1..Len(msgs) |->
        IF msgs[i].id = aid
        THEN [msgs[i] EXCEPT !.content = ErrorContent(ev)]
        ELSE msgs[i]]

\* if (event.conversation_id && <captured conversation>.id !== event.conversation_id)
Adopts(s, ev) ==
    ev.conversation_id # "" /\ streams[s].convId # ev.conversation_id

\* The callback passed to generateAgentResponseStream for stream s, applied to ev.
\* Only the callback of handleStartAnalysis stores the handle, and only on final.
OnEvent(s, ev) ==
    /\ messages' =
         CASE ev.type = "partial" -> ApplyPartial(messages, AssistantId(s), ev)
           [] ev.type = "final"   -> ApplyFinal(messages, AssistantId(s), ev)
           [] ev.type = "error"   -> ApplyError(messages, AssistantId(s), ev)
           [] OTHER               -> messages
    /\ workflowResult' =
         IF ev.type = "final" THEN Some(EventResult(ev)) ELSE workflowResult
    /\ streamControllerRef' =
         IF ev.type = "final" /\ streams[s].kind = "start"
         THEN Some(s) ELSE streamControllerRef
    /\ IF ev.type = "final" /\ Adopts(s, ev)
       THEN /\ currentConversation' =
                 Some([id |-> ev.conversation_id, title |-> streams[s].title])
            /\ loads' = loads \cup {ev.conversation_id}
       ELSE UNCHANGED <<currentConversation, loads>>

----------------------------------------------------------------------------
\* The streaming response consumer: messagesApi.generateAgentResponseStream

InFlight(s) == streams[s].pc \in {"fetch", "body", "read"}

\* The call itself: a new AbortController and a task suspended at `await fetch`.
NewStream(kind, conv) ==
    [pc |-> "fetch", aborted |-> FALSE, kind |-> kind, convId |-> conv.id,
     title |-> conv.title, status |-> "", any |-> FALSE, terminal |-> "", acc |-> <<>>]

\* Mutant: stop() flips the signal instead of setting it.
StopToggles(strs, ref) ==
    IF ref = Null THEN strs
    ELSE [strs EXCEPT ![Val(ref)].aborted = ~@]

\* { stop: () => controller.abort() }: sets the signal; the pending await of the
\* task, if any, rejects later (AbortRejects).
Stop(strs, ref) ==
    IF ref = Null THEN strs
    ELSE [strs EXCEPT ![Val(ref)].aborted = TRUE]

\* The task of a stream that has ended: nothing of its record is read again but
\* the signal of its AbortController.
Ended(st) == [IdleStream EXCEPT !.pc = "done", !.aborted = st.aborted]

\* What the run has delivered on a stream so far (kept for the properties only):
\* whether any event, the type of the first terminal event, and the fragments of
\* the partial events that came before it.
Record(st, ev, nextPc) ==
    IF nextPc = "done" THEN Ended(st)
    ELSE [st EXCEPT !.pc = nextPc,
                    !.any = TRUE,
                    !.terminal = IF @ = "" /\ IsTerminal(ev) THEN ev.type ELSE @,
                    !.acc = IF st.terminal = "" /\ ev.type = "partial"
                            THEN @ \o ev.partial ELSE @]

\* if (onEvent) onEvent(event): the callback runs to completion inside the task.
\* Once the component is unmounted its state setters have no effect.
Deliver(s, ev, nextPc) ==
    /\ IF pc = "unmounted" THEN UNCHANGED ctrlVars ELSE OnEvent(s, ev)
    /\ streams' = [streams EXCEPT ![s] = Record(@, ev, nextPc)]

\* `${res.status} ${txt}`
StatusError(status, txt) == ErrorEvent(<<status, " ">> \o txt)

\* The body text of the non-success response.
ErrorBody == <<"overloaded">>

\* { type: 'error', error: err.message || String(err) } for a network failure and
\* for the rejection an aborted signal causes.
FailureEvent == ErrorEvent(<<"Failed to fetch">>)
AbortEvent == ErrorEvent(<<"The operation was aborted.">>)

\* await fetch(...) resolves with a success status: the task reads the body.
FetchOk(s) ==
    /\ streams[s].pc = "fetch" /\ ~streams[s].aborted
    /\ streams' = [streams EXCEPT ![s].pc = "read", ![s].status = "200"]
    /\ UNCHANGED <<ctrlVars, uiVars, nStreams, serverMsgs, frames>>
    /\ UNCHANGED pureVars

\* await fetch(...) resolves with a success status and no body: if (!reader) return.
FetchNoBody(s) ==
    /\ streams[s].pc = "fetch" /\ ~streams[s].aborted
    /\ streams' = [streams EXCEPT ![s] = Ended(@)]
    /\ UNCHANGED <<ctrlVars, uiVars, nStreams, serverMsgs, frames>>
    /\ UNCHANGED pureVars

\* await fetch(...) resolves with a non-success status: the task awaits res.text().
FetchNotOk(s) ==
    /\ streams[s].pc = "fetch" /\ ~streams[s].aborted
    /\ streams' = [streams EXCEPT ![s].pc = "body", ![s].status = "500"]
    /\ UNCHANGED <<ctrlVars, uiVars, nStreams, serverMsgs, frames>>
    /\ UNCHANGED pureVars

\* Mutant: the `return` after the error event is missing; the task goes on to read.
BodyTextNoReturn(s) ==
    /\ streams[s].pc = "body" /\ ~streams[s].aborted
    /\ Deliver(s, StatusError(streams[s].status, ErrorBody), "read")
    /\ UNCHANGED <<uiVars, nStreams, serverMsgs, frames>>
    /\ UNCHANGED pureVars

\* await res.text() resolves: one error event with the status and the text; return.
BodyText(s) ==
    /\ streams[s].pc = "body" /\ ~streams[s].aborted
    /\ Deliver(s, StatusError(streams[s].status, ErrorBody), "done")
    /\ UNCHANGED <<uiVars, nStreams, serverMsgs, frames>>
    /\ UNCHANGED pureVars

\* await reader.read() resolves with a chunk completing one frame that decodes.
ReadFrame(s, ev) ==
    /\ streams[s].pc = "read" /\ ~streams[s].aborted
    /\ frames < MaxFrames
    /\ Deliver(s, ev, "read")
    /\ frames' = frames + 1
    /\ UNCHANGED <<uiVars, nStreams, serverMsgs>>
    /\ UNCHANGED pureVars

\* await reader.read() resolves with a chunk completing some frame the backend sent.
ReadsFrame(s) == \E ev \in Frames(s) : ReadFrame(s, ev)

\* await reader.read() resolves with done: break; the task ends without an event.
ReadDone(s) ==
    /\ streams[s].pc = "read" /\ ~streams[s].aborted
    /\ streams' = [streams EXCEPT ![s] = Ended(@)]
    /\ UNCHANGED <<ctrlVars, uiVars, nStreams, serverMsgs, frames>>
    /\ UNCHANGED pureVars

\* Mutant: the catch swallows the failure; the task ends without an event.
TransportFailsSilently(s) ==
    /\ InFlight(s) /\ ~streams[s].aborted
    /\ streams' = [streams EXCEPT ![s] = Ended(@)]
    /\ UNCHANGED ctrlVars
    /\ UNCHANGED <<uiVars, nStreams, serverMsgs, frames>>
    /\ UNCHANGED pureVars

\* The pending await rejects with a network failure: catch (err) -> error event.
TransportFails(s) ==
    /\ InFlight(s) /\ ~streams[s].aborted
    /\ Deliver(s, FailureEvent, "done")
    /\ UNCHANGED <<uiVars, nStreams, serverMsgs, frames>>
    /\ UNCHANGED pureVars

\* The pending await rejects because the signal was aborted: the same catch.
AbortRejects(s) ==
    /\ InFlight(s) /\ streams[s].aborted
    /\ Deliver(s, AbortEvent, "done")
    /\ UNCHANGED <<uiVars, nStreams, serverMsgs, frames>>
    /\ UNCHANGED pureVars

----------------------------------------------------------------------------
\* The session controller: AnalysisAgentPage

\* The form of handleStartAnalysis is rendered while !hasStarted, and its button is
\* disabled while !initialQuery.trim() || isLoading.
StartAccepted == pc # "unmounted" /\ ~hasStarted /\ ~isLoading

\* The user types the prompt q (not blank) and submits: handleStartAnalysis up to
\* `await conversationsApi.create(title)`.
StartSubmit(q) ==
    /\ StartAccepted
    /\ initialQuery' = q
    /\ nStreams < MaxStreams
    /\ isLoading' = TRUE
    /\ hasStarted' = TRUE
    /\ pc' = "start_conv"
    /\ local' = [NoLocal EXCEPT !.query = q]
    /\ alert' = Null
    /\ UNCHANGED <<ctrlVars, streams, nStreams, serverMsgs, frames>>
    /\ UNCHANGED pureVars

\* Mutant: setIsLoading(false) only at the end of the try block, no finally.
CatchWithoutFinally(msg) ==
    /\ alert' = Some(msg)
    /\ isLoading' = isLoading
    /\ pc' = "idle"
    /\ local' = NoLocal

\* catch (error) { alert(...) } finally { setIsLoading(false) }
CatchAndFinally(msg) ==
    /\ alert' = Some(msg)
    /\ isLoading' = FALSE
    /\ pc' = "idle"
    /\ local' = NoLocal

\* conversationsApi.create rejects (non-success status), or resolves with a
\* conversation in which no id is found: the handler throws.
StartConvFails(why) ==
    /\ pc = "start_conv"
    /\ CatchAndFinally(why)
    /\ UNCHANGED <<ctrlVars, initialQuery, hasStarted,
                   streams, nStreams, serverMsgs, frames>>
    /\ UNCHANGED pureVars

\* conversationsApi.create resolves with a conversation of id c:
\* setCurrentConversation (whose effect starts loadMessages), then
\* `await messagesApi.create(id, 'user', initialQuery.trim())`.
StartConvOk(c) ==
    /\ pc = "start_conv"
    /\ LET conv == [id |-> c, title |-> TitleOf(local.query)] IN
        /\ currentConversation' = Some(conv)
        /\ loads' = loads \cup {c}
        /\ local' = [local EXCEPT !.conv = Some(conv)]
    /\ pc' = "start_msg"
    /\ UNCHANGED <<messages, workflowResult, streamControllerRef, isLoading,
                   initialQuery, hasStarted, alert, streams, nStreams,
                   serverMsgs, frames>>
    /\ UNCHANGED pureVars

\* messagesApi.create rejects.
StartMsgFails ==
    /\ pc = "start_msg"
    /\ CatchAndFinally("Failed to create message")
    /\ UNCHANGED <<ctrlVars, initialQuery, hasStarted,
                   streams, nStreams, serverMsgs, frames>>
    /\ UNCHANGED pureVars

\* The record messagesApi.create resolves with.
UserMessage(cid, content) ==
    Message(<<"msg", Len(serverMsgs) + 1>>, cid, "user", content)

\* Mutant: the placeholder is installed alone, without the user's message.
StartMsgOkPlaceholderOnly ==
    /\ pc = "start_msg"
    /\ LET conv == Val(local.conv)
           s == nStreams + 1
           um == UserMessage(conv.id, local.query) IN
        /\ serverMsgs' = Append(serverMsgs, um)
        /\ messages' = <<AssistantPlaceholder(s, conv.id)>>
        /\ streams' = [Stop(streams, streamControllerRef) EXCEPT ![s] = NewStream("start", conv)]
        /\ nStreams' = s
    /\ isLoading' = FALSE
    /\ pc' = "idle"
    /\ local' = NoLocal
    /\ UNCHANGED <<currentConversation, workflowResult, streamControllerRef, loads,
                   initialQuery, hasStarted, alert, frames>>
    /\ UNCHANGED pureVars

\* messagesApi.create resolves: setMessages([userMessage, assistantPlaceholder]),
\* stop the stored handle if any, start the stream; the handle is not stored here.
StartMsgOk ==
    /\ pc = "start_msg"
    /\ LET conv == Val(local.conv)
           s == nStreams + 1
           um == UserMessage(conv.id, local.query) IN
        /\ serverMsgs' = Append(serverMsgs, um)
        /\ messages' = <<um, AssistantPlaceholder(s, conv.id)>>
        /\ streams' = [Stop(streams, streamControllerRef) EXCEPT ![s] = NewStream("start", conv)]
        /\ nStreams' = s
    /\ isLoading' = FALSE
    /\ pc' = "idle"
    /\ local' = NoLocal
    /\ UNCHANGED <<currentConversation, workflowResult, streamControllerRef, loads,
                   initialQuery, hasStarted, alert, frames>>
    /\ UNCHANGED pureVars

\* ChatInterface is rendered once hasStarted and submits only while !isLoading.
SendAccepted == hasStarted /\ ~isLoading

\* Mutant: setIsLoading(true) comes before the test of currentConversation.
SendSubmitLoadingFirst(content) ==
    /\ SendAccepted
    /\ nStreams < MaxStreams
    /\ isLoading' = TRUE
    /\ IF currentConversation = Null
       THEN UNCHANGED <<pc, local, alert>>
       ELSE /\ pc' = "send_msg"
            /\ local' = [NoLocal EXCEPT !.conv = currentConversation, !.content = content]
            /\ alert' = Null
    /\ UNCHANGED <<ctrlVars, initialQuery, hasStarted, streams, nStreams,
                   serverMsgs, frames>>
    /\ UNCHANGED pureVars

\* handleSendMessage up to `await messagesApi.create(conversationId, 'user', content)`;
\* if (!currentConversation) return.
SendSubmit(content) ==
    /\ SendAccepted
    /\ nStreams < MaxStreams
    /\ IF currentConversation = Null
       THEN UNCHANGED <<isLoading, pc, local, alert>>
       ELSE /\ isLoading' = TRUE
            /\ pc' = "send_msg"
            /\ local' = [NoLocal EXCEPT !.conv = currentConversation, !.content = content]
            /\ alert' = Null
    /\ UNCHANGED <<ctrlVars, initialQuery, hasStarted, streams, nStreams,
                   serverMsgs, frames>>
    /\ UNCHANGED pureVars

\* Mutant: the placeholder is installed before the user's message is created, and
\* stays when the creation fails.
SendMsgFailsKeepsPlaceholder ==
    /\ pc = "send_msg"
    /\ CatchAndFinally("Failed to send message. Please try again.")
    /\ messages' = Append(messages, AssistantPlaceholder(nStreams + 1, Val(local.conv).id))
    /\ UNCHANGED <<currentConversation, workflowResult, streamControllerRef, loads,
                   initialQuery, hasStarted, streams, nStreams, serverMsgs, frames>>
    /\ UNCHANGED pureVars

\* messagesApi.create rejects.
SendMsgFails ==
    /\ pc = "send_msg"
    /\ CatchAndFinally("Failed to send message. Please try again.")
    /\ UNCHANGED <<ctrlVars, initialQuery, hasStarted,
                   streams, nStreams, serverMsgs, frames>>
    /\ UNCHANGED pureVars

\* messagesApi.create resolves: append the user's message and the placeholder, stop
\* the stored handle if any, start the stream and store its handle.
SendMsgOk ==
    /\ pc = "send_msg"
    /\ LET conv == Val(local.conv)
           s == nStreams + 1
           um == UserMessage(conv.id, local.content) IN
        /\ serverMsgs' = Append(serverMsgs, um)
        /\ messages' = messages \o <<um, AssistantPlaceholder(s, conv.id)>>
        /\ streams' = [Stop(streams, streamControllerRef) EXCEPT ![s] = NewStream("send", conv)]
        /\ nStreams' = s
        /\ streamControllerRef' = Some(s)
    /\ isLoading' = FALSE
    /\ pc' = "idle"
    /\ local' = NoLocal
    /\ UNCHANGED <<currentConversation, workflowResult, loads,
                   initialQuery, hasStarted, alert, frames>>
    /\ UNCHANGED pureVars

\* handleNewConversation (the button of the chat view, rendered once hasStarted).
NewConversation ==
    /\ hasStarted
    /\ currentConversation' = Null
    /\ messages' = <<>>
    /\ initialQuery' = <<>>
    /\ hasStarted' = FALSE
    /\ UNCHANGED <<workflowResult, streamControllerRef, loads, isLoading, pc, local,
                   alert, streams, nStreams, serverMsgs, frames>>
    /\ UNCHANGED pureVars

\* The cleanup of the mount effect, run when the page is left: stop the stored
\* handle if any and clear it. The state of the instance is discarded with it; the
\* consumer tasks go on. (Leaving the page while a submit handler is suspended at
\* an await is not covered.)
Teardown ==
    /\ pc = "idle"
    /\ streams' = Stop(streams, streamControllerRef)
    /\ streamControllerRef' = Null
    /\ pc' = "unmounted"
    /\ currentConversation' = Null
    /\ messages' = <<>>
    /\ workflowResult' = Null
    /\ loads' = {}
    /\ initialQuery' = <<>>
    /\ hasStarted' = FALSE
    /\ UNCHANGED <<isLoading, local, alert, nStreams, serverMsgs, frames>>
    /\ UNCHANGED pureVars

\* The lists GET /agents/messages?conversation_id=c may answer while the request is
\* pending: what the backend has stored for c up to some moment.
ServerLists(c) ==
    LET all == SelectSeq(serverMsgs, LAMBDA m : m.conversation_id = c)
    IN {SubSeq(all, 1, n) : n \in 0..Len(all)}

\* loadMessages resolves: setMessages(msgs).
LoadMessagesOk(c, msgs) ==
    /\ c \in loads
    /\ loads' = loads \ {c}
    /\ messages' = msgs
    /\ UNCHANGED <<currentConversation, workflowResult, streamControllerRef, uiVars,
                   streams, nStreams, serverMsgs, frames>>
    /\ UNCHANGED pureVars

\* loadMessages resolves with some list the backend may answer.
LoadMessages(c) == \E msgs \in ServerLists(c) : LoadMessagesOk(c, msgs)

\* loadMessages rejects: the failure is logged, nothing changes.
LoadMessagesFails(c) ==
    /\ c \in loads
    /\ loads' = loads \ {c}
    /\ UNCHANGED <<currentConversation, messages, workflowResult, streamControllerRef,
                   uiVars, streams, nStreams, serverMsgs, frames>>
    /\ UNCHANGED pureVars

----------------------------------------------------------------------------
\* Decoded JSON payloads.  Every value carries its type tag t; a string its text s;
\* an object its properties f, as <<name, value>> pairs in insertion order; an array
\* its elements (and, being an object, whatever properties were set on it).

JValue(t, s, f, items) == [t |-> t, s |-> s, f |-> f, items |-> items]
JUndef == JValue("undef", "", <<>>, <<>>)
JNull == JValue("null", "", <<>>, <<>>)
JNum == JValue("num", "7", <<>>, <<>>)
JStr(x) == JValue("str", x, <<>>, <<>>)
JObj(pairs) == JValue("obj", "", pairs, <<>>)
JArr(elems) == JValue("arr", "", <<>>, elems)

\* v as a condition: `if (v)`, `v && ...`, `v || ...`
Truthy(v) ==
    CASE v.t \in {"undef", "null"} -> FALSE
      [] v.t = "str" -> v.s # ""
      [] OTHER -> TRUE

\* a || b
Or(a, b) == IF Truthy(a) THEN a ELSE b

\* v && typeof v === 'object'
IsObject(v) == v.t \in {"obj", "arr"}

\* Array.isArray(v)
IsArray(v) == v.t = "arr"

\* v.k for a value that is neither null nor undefined
Get(v, k) ==
    LET hits == SelectSeq(v.f, LAMBDA p : p[1] = k)
    IN IF hits = <<>> THEN JUndef ELSE hits[1][2]

\* v.k = x
Set(v, k, x) ==
    IF \E i \in 1..Len(v.f) : v.f[i][1] = k
    THEN [v EXCEPT !.f = [i \in 1..Len(v.f) |->
                             IF v.f[i][1] = k THEN <<k, x>> ELSE v.f[i]]]
    ELSE [v EXCEPT !.f = Append(v.f, <<k, x>>)]

\* v[0]
First(v) == IF v.items = <<>> THEN JUndef ELSE v.items[1]

----------------------------------------------------------------------------
\* The REST resource clients: documentsApi, queriesApi, conversationsApi, messagesApi

\* What `await fetch(...)` resolved with: response.ok, response.status, the body as
\* response.text() gives it and as response.json() decodes it.
Response(ok, status, text, json) ==
    [ok |-> ok, status |-> status, text |-> text, json |-> json]

\* How a call ends: it resolves with a value or throws an Error with a message.
Resolved(v) == [kind |-> "value", value |-> v, message |-> <<>>]
Thrown(msg) == [kind |-> "error", value |-> JUndef, message |-> msg]

\* Reading a property of null throws.
TypeError == Thrown(<<"TypeError: Cannot read properties of null">>)

\* const tryGetId = (obj) => ...; TryGetIdIn is its loop over Object.keys(obj),
\* from the i-th property on.
RECURSIVE TryGetId(_), TryGetIdIn(_, _)
TryGetId(obj) ==
    IF ~Truthy(obj) THEN JNull
    ELSE IF obj.t = "str" THEN obj
    ELSE IF Truthy(Get(obj, "id")) THEN Get(obj, "id")
    ELSE IF Truthy(Get(obj, "conversation_id")) THEN Get(obj, "conversation_id")
    ELSE IF Truthy(Get(obj, "data")) THEN TryGetId(Get(obj, "data"))
    ELSE IF IsArray(obj) THEN TryGetId(First(obj))
    ELSE TryGetIdIn(obj.f, 1)

TryGetIdIn(pairs, i) ==
    IF i > Len(pairs) THEN JNull
    ELSE LET v == pairs[i][2]
             nested == IF Truthy(v) /\ IsObject(v) THEN TryGetId(v) ELSE JNull
         IN IF Truthy(nested) THEN nested ELSE TryGetIdIn(pairs, i + 1)

\* Mutant: of an array the last element is taken, not the first.
NormalizeConversationLast(result, title) ==
    LET c0 == Or(Get(result, "conversation"), result)
        c1 == IF Truthy(c0) /\ Truthy(Get(c0, "data")) THEN Get(c0, "data") ELSE c0
        c2 == IF IsArray(c1) /\ Len(c1.items) > 0 THEN c1.items[Len(c1.items)] ELSE c1
        id == TryGetId(c2)
        c3 == IF Truthy(c2) /\ IsObject(c2) /\ Truthy(id) /\ ~Truthy(Get(c2, "id"))
              THEN Set(c2, "id", id) ELSE c2
        c4 == IF c3.t = "str"
              THEN JObj(<< <<"id", c3>>, <<"title", JStr(title)>> >>) ELSE c3
        c5 == IF IsArray(c4) /\ Len(c4.items) > 0 THEN First(c4) ELSE c4
    IN IF Truthy(c5) /\ ~Truthy(Get(c5, "id")) /\ Truthy(Get(c5, "data"))
       THEN Get(c5, "data") ELSE c5

\* conversationsApi.create, from `let conv = result.conversation || result` to
\* `return conv`, for a decoded result that is not null.
NormalizeConversation(result, title) ==
    LET c0 == Or(Get(result, "conversation"), result)
        c1 == IF Truthy(c0) /\ Truthy(Get(c0, "data")) THEN Get(c0, "data") ELSE c0
        c2 == IF IsArray(c1) /\ Len(c1.items) > 0 THEN First(c1) ELSE c1
        id == TryGetId(c2)
        c3 == IF Truthy(c2) /\ IsObject(c2) /\ Truthy(id) /\ ~Truthy(Get(c2, "id"))
              THEN Set(c2, "id", id) ELSE c2
        c4 == IF c3.t = "str"
              THEN JObj(<< <<"id", c3>>, <<"title", JStr(title)>> >>) ELSE c3
        c5 == IF IsArray(c4) /\ Len(c4.items) > 0 THEN First(c4) ELSE c4
    IN IF Truthy(c5) /\ ~Truthy(Get(c5, "id")) /\ Truthy(Get(c5, "data"))
       THEN Get(c5, "data") ELSE c5

\* conversationsApi.create(title) given the response to its POST.
ConversationsCreate(title, res) ==
    IF ~res.ok THEN Thrown(<<"Failed to create conversation">>)
    ELSE IF res.json = JNull THEN TypeError
    ELSE Resolved(NormalizeConversation(res.json, title))

\* conversationsApi.getAll(): result.conversations || result
ConversationsGetAll(res) ==
    IF ~res.ok THEN Thrown(<<"Failed to fetch conversations">>)
    ELSE IF res.json = JNull THEN TypeError
    ELSE Resolved(Or(Get(res.json, "conversations"), res.json))

\* documentsApi.getAll()
DocumentsGetAll(res) ==
    IF ~res.ok
    THEN Thrown(<<"Failed to fetch documents: ", res.status, " ">> \o res.text)
    ELSE IF res.json = JNull THEN TypeError
    ELSE IF IsArray(Get(res.json, "documents")) THEN Resolved(Get(res.json, "documents"))
    ELSE IF IsArray(res.json) THEN Resolved(res.json)
    ELSE Resolved(JArr(<<>>))

\* documentsApi.upload(file): result.document || result
DocumentsUpload(res) ==
    IF ~res.ok THEN Thrown(<<"Failed to upload document">>)
    ELSE IF res.json = JNull THEN TypeError
    ELSE Resolved(Or(Get(res.json, "document"), res.json))

\* documentsApi.delete(id)
DocumentsDelete(res) ==
    IF ~res.ok THEN Thrown(<<"Failed to delete document">>)
    ELSE Resolved(JUndef)

\* queriesApi.create(queryText): { query: result.query, sources: result.sources || [] }
QueriesCreate(res) ==
    IF ~res.ok THEN Thrown(<<"Failed to create query">>)
    ELSE IF res.json = JNull THEN TypeError
    ELSE Resolved(JObj(<< <<"query", Get(res.json, "query")>>,
                         <<"sources", Or(Get(res.json, "sources"), JArr(<<>>))>> >>))

\* messagesApi.getByConversation(conversationId): no request without an id.
MessagesGetByConversation(conversationId, res) ==
    IF conversationId = "" THEN Resolved(JArr(<<>>))
    ELSE IF ~res.ok THEN Thrown(<<"Failed to fetch messages">>)
    ELSE IF res.json = JNull THEN TypeError
    ELSE Resolved(Or(Get(res.json, "messages"), res.json))

\* messagesApi.create(conversationId, role, content): no request without an id.
MessagesCreate(conversationId, res) ==
    IF conversationId = "" THEN Thrown(<<"conversationId is required">>)
    ELSE IF ~res.ok THEN Thrown(<<"Failed to create message">>)
    ELSE IF res.json = JNull THEN TypeError
    ELSE Resolved(Or(Get(res.json, "message"), res.json))

\* The key under which the payload of a list operation conventionally holds the list.
ListKey(op) ==
    CASE op = "documents.getAll" -> "documents"
      [] op = "conversations.getAll" -> "conversations"
      [] op = "messages.getByConversation" -> "messages"
      [] OTHER -> ""

\* Payloads a backend may answer with.
EntityIds == {"a", "b"}
Entity(x) == JObj(<< <<"id", JStr(x)>> >>)
Wrapped(k, v) == JObj(<< <<k, v>> >>)
EntityArrays ==
    {JArr(<<>>)} \cup {JArr(<<Entity(x)>>) : x \in EntityIds}
        \cup {JArr(<<Entity(x), Entity(y)>>) : x, y \in EntityIds}
Payloads ==
    {JNull, JNum, JStr(""), JObj(<<>>), JObj(<< <<"title", JStr("t")>> >>)}
        \cup {JStr(x) : x \in EntityIds}
        \cup {Entity(x) : x \in EntityIds}
        \cup {Wrapped("conversation_id", JStr(x)) : x \in EntityIds}
        \cup {Wrapped(k, Entity(x)) :
                 k \in {"data", "conversation", "value", "message", "document"},
                 x \in EntityIds}
        \cup {Wrapped("data", JStr(x)) : x \in EntityIds}
        \cup EntityArrays
        \cup {JArr(<<JArr(<<Entity(x)>>)>>) : x \in EntityIds}
        \cup {Wrapped(k, a) : k \in {"data", "documents", "conversations", "messages"},
                              a \in EntityArrays}
        \cup {JObj(<< <<d, JStr(x)>>, <<k, Entity(y)>> >>) :
                 d \in {"id", "conversation_id"},
                 k \in {"data", "conversation", "value"},
                 x \in EntityIds, y \in EntityIds}
        \cup {JObj(<< <<"value", Entity(x)>>, <<k, Entity(y)>> >>) :
                 k \in {"other", "data"}, x \in EntityIds, y \in EntityIds}

Responses ==
    {Response(TRUE, "200", <<>>, p) : p \in Payloads}
        \cup {Response(FALSE, st, <<"overloaded">>, JUndef) : st \in {"404", "500"}}

Titles == {"", "t"}
MaybeConvIds == {"", "c1"}

\* The controller before any operation.
ProgInit ==
    /\ currentConversation = Null
    /\ messages = <<>>
    /\ isLoading = FALSE
    /\ initialQuery = <<>>
    /\ hasStarted = FALSE
    /\ workflowResult = Null
    /\ streamControllerRef = Null
    /\ pc = "idle"
    /\ local = NoLocal
    /\ alert = Null
    /\ streams = [s \in StreamIds |-> IdleStream]
    /\ nStreams = 0
    /\ loads = {}
    /\ serverMsgs = <<>>
    /\ frames = 0

NoCall == [op |-> "", arg |-> "", response |-> Response(TRUE, "", <<>>, JUndef)]

RestIdle == restCall = NoCall /\ restResult = Resolved(JUndef)

\* One call of a REST operation, from its request to its result.
CallDocumentsGetAll(res) ==
    /\ restCall' = [op |-> "documents.getAll", arg |-> "", response |-> res]
    /\ restResult' = DocumentsGetAll(res)
    /\ UNCHANGED <<progVars, parseVars>>

CallDocumentsUpload(res) ==
    /\ restCall' = [op |-> "documents.upload", arg |-> "", response |-> res]
    /\ restResult' = DocumentsUpload(res)
    /\ UNCHANGED <<progVars, parseVars>>

CallDocumentsDelete(res) ==
    /\ restCall' = [op |-> "documents.delete", arg |-> "", response |-> res]
    /\ restResult' = DocumentsDelete(res)
    /\ UNCHANGED <<progVars, parseVars>>

CallQueriesCreate(res) ==
    /\ restCall' = [op |-> "queries.create", arg |-> "", response |-> res]
    /\ restResult' = QueriesCreate(res)
    /\ UNCHANGED <<progVars, parseVars>>

CallConversationsCreate(title, res) ==
    /\ restCall' = [op |-> "conversations.create", arg |-> title, response |-> res]
    /\ restResult' = ConversationsCreate(title, res)
    /\ UNCHANGED <<progVars, parseVars>>

CallConversationsGetAll(res) ==
    /\ restCall' = [op |-> "conversations.getAll", arg |-> "", response |-> res]
    /\ restResult' = ConversationsGetAll(res)
    /\ UNCHANGED <<progVars, parseVars>>

CallMessagesGetByConversation(cid, res) ==
    /\ restCall' = [op |-> "messages.getByConversation", arg |-> cid, response |-> res]
    /\ restResult' = MessagesGetByConversation(cid, res)
    /\ UNCHANGED <<progVars, parseVars>>

CallMessagesCreate(cid, res) ==
    /\ restCall' = [op |-> "messages.create", arg |-> cid, response |-> res]
    /\ restResult' = MessagesCreate(cid, res)
    /\ UNCHANGED <<progVars, parseVars>>

----------------------------------------------------------------------------
\* The frame decoder: the read loop of generateAgentResponseStream on its own.
\* The body is a sequence of byte tokens: LF, the two halves of the "data: " prefix,
\* and the characters of JSON texts.

LF == "\n"
DataPrefix == <<"data", ": ">>

\* The texts JSON.parse accepts, once the white space around them is dropped.
JsonTexts == {<<"{", b, "}">> : b \in {"1", "2"}}

\* Segments a backend may write: two well-formed frames (with and without the
\* prefix), a frame cut short, a frame that is no JSON, a stray line feed, and a
\* frame whose boundary has not been written.
Segments ==
    { <<"data", ": ", "{", "1", "}", LF, LF>>,
      <<"{", "2", "}", LF, LF>>,
      <<"data", ": ", "{", "1", LF, LF>>,
      <<"oops", LF, LF>>,
      <<LF>>,
      <<"data", ": ", "{", "2", "}">> }

\* Largest number of segments in a response body.
MaxSegments == 3

RECURSIVE Bodies(_)
Bodies(n) ==
    IF n = 0 THEN {<<>>}
    ELSE Bodies(n - 1) \cup {b \o seg : b \in Bodies(n - 1), seg \in Segments}

\* reader.read() resolves with { done: true } after the last byte.
EndOfBody == "EOF"

\* str.split('\n\n'), scanning from position i with cur the part being collected.
RECURSIVE SplitFrom(_, _, _)
SplitFrom(str, i, cur) ==
    IF i > Len(str) THEN <<cur>>
    ELSE IF i < Len(str) /\ str[i] = LF /\ str[i + 1] = LF
         THEN <<cur>> \o SplitFrom(str, i + 2, <<>>)
         ELSE SplitFrom(str, i + 1, Append(cur, str[i]))

Split(str) == SplitFrom(str, 1, <<>>)

\* str.trim()
RECURSIVE Trim(_)
Trim(str) ==
    IF str = <<>> THEN str
    ELSE IF str[1] = LF THEN Trim(Tail(str))
    ELSE IF str[Len(str)] = LF THEN Trim(SubSeq(str, 1, Len(str) - 1))
    ELSE str

\* if (raw.startsWith('data: ')) raw = raw.substring(6)
StripPrefix(part) ==
    IF Len(part) >= 2 /\ SubSeq(part, 1, 2) = DataPrefix
    THEN SubSeq(part, 3, Len(part)) ELSE part

\* JSON.parse(raw): the event, or a SyntaxError (no event).
Parses(raw) == Trim(raw) \in JsonTexts
Parsed(raw) == Trim(raw)[2]

\* Mutant: a part that does not parse ends the handling of the parts after it.
RECURSIVE EventsOfUntilMalformed(_)
EventsOfUntilMalformed(parts) ==
    IF parts = <<>> THEN <<>>
    ELSE LET part == Head(parts) IN
         IF Trim(part) = <<>> THEN EventsOfUntilMalformed(Tail(parts))
         ELSE IF Parses(StripPrefix(part))
              THEN <<Parsed(StripPrefix(part))>> \o EventsOfUntilMalformed(Tail(parts))
              ELSE <<>>

\* for (const part of parts) { ... }: the events handed to onEvent, in order.
RECURSIVE EventsOf(_)
EventsOf(parts) ==
    IF parts = <<>> THEN <<>>
    ELSE LET part == Head(parts) IN
         IF Trim(part) = <<>> THEN EventsOf(Tail(parts))
         ELSE IF Parses(StripPrefix(part))
              THEN <<Parsed(StripPrefix(part))>> \o EventsOf(Tail(parts))
              ELSE EventsOf(Tail(parts))

\* Mutant: the trailing fragment is parsed at once instead of being kept.
OnChunkNoCarry(buf, chunk) ==
    [buffer |-> <<>>, events |-> EventsOf(Split(buf \o chunk))]

\* One turn of the loop for a chunk: buffer += chunk; parts = buffer.split('\n\n');
\* buffer = parts.pop() || ''; then the parts are handled.
OnChunk(buf, chunk) ==
    LET parts == Split(buf \o chunk) IN
    [buffer |-> parts[Len(parts)],
     events |-> EventsOf(SubSeq(parts, 1, Len(parts) - 1))]

ParseIdle == wire = <<>> /\ got = <<>> /\ buffer = <<>> /\ delivered = <<>>

\* A response body arrives, to be read in chunks of any sizes.
ParseInit ==
    /\ ProgInit /\ RestIdle
    /\ wire \in {b \o <<EndOfBody>> : b \in Bodies(MaxSegments)}
    /\ got = <<>> /\ buffer = <<>> /\ delivered = <<>>

\* await reader.read() resolves with the next k bytes.
ReadChunk(k) ==
    /\ k < Len(wire)
    /\ LET chunk == SubSeq(wire, 1, k)
           r == OnChunk(buffer, chunk) IN
        /\ wire' = SubSeq(wire, k + 1, Len(wire))
        /\ got' = got \o chunk
        /\ buffer' = r.buffer
        /\ delivered' = delivered \o r.events
    /\ UNCHANGED <<progVars, restVars>>

\* await reader.read() resolves with done: break; the buffer is dropped.
ReadEnd ==
    /\ wire = <<EndOfBody>>
    /\ wire' = <<>>
    /\ buffer' = <<>>
    /\ UNCHANGED <<got, delivered, progVars, restVars>>

----------------------------------------------------------------------------

Init == ProgInit /\ RestIdle /\ ParseIdle

Next ==
    \/ \E q \in Prompts : StartSubmit(q)
    \/ \E why \in {"Failed to create conversation",
                   "Conversation id missing from server response"} : StartConvFails(why)
    \/ \E c \in NewConvIds : StartConvOk(c)
    \/ StartMsgFails
    \/ StartMsgOk
    \/ \E content \in Contents : SendSubmit(content)
    \/ SendMsgFails
    \/ SendMsgOk
    \/ NewConversation
    \/ Teardown
    \/ \E c \in ConvIds : LoadMessages(c)
    \/ \E c \in ConvIds : LoadMessagesFails(c)
    \/ \E s \in StreamIds : FetchOk(s)
    \/ \E s \in StreamIds : FetchNoBody(s)
    \/ \E s \in StreamIds : FetchNotOk(s)
    \/ \E s \in StreamIds : BodyText(s)
    \/ \E s \in StreamIds : ReadsFrame(s)
    \/ \E s \in StreamIds : ReadDone(s)
    \/ \E s \in StreamIds : TransportFails(s)
    \/ \E s \in StreamIds : AbortRejects(s)

Spec == Init /\ [][Next]_vars

\* Each request a submit handler awaits resolves or rejects in the end.
HandlerResumes ==
    \/ \E why \in {"Failed to create conversation",
                   "Conversation id missing from server response"} : StartConvFails(why)
    \/ \E c \in NewConvIds : StartConvOk(c)
    \/ StartMsgFails
    \/ StartMsgOk
    \/ SendMsgFails
    \/ SendMsgOk

SpecLive == Init /\ [][Next]_vars /\ WF_vars(HandlerResumes)

\* The REST resource clients on their own: any operation, any answer.
RestNext ==
    \/ \E res \in Responses : CallDocumentsGetAll(res)
    \/ \E res \in Responses : CallDocumentsUpload(res)
    \/ \E res \in Responses : CallDocumentsDelete(res)
    \/ \E res \in Responses : CallQueriesCreate(res)
    \/ \E title \in Titles, res \in Responses : CallConversationsCreate(title, res)
    \/ \E res \in Responses : CallConversationsGetAll(res)
    \/ \E cid \in MaybeConvIds, res \in Responses : CallMessagesGetByConversation(cid, res)
    \/ \E cid \in MaybeConvIds, res \in Responses : CallMessagesCreate(cid, res)

SpecRest == Init /\ [][RestNext]_vars

\* Longest prompt typed in the runs that exercise the title.
MaxPromptLen == 53

\* The prompt of n characters (UTF-16 code units, as String.length counts them).
PromptOfLen(n) == [i \in 1..n |-> <<"a", "b", "c">>[(i % 3) + 1]]
TitlePrompts == {PromptOfLen(n) : n \in 1..MaxPromptLen}

\* The start of a session for prompts of every length up to MaxPromptLen.
TitleNext ==
    \/ \E q \in TitlePrompts : StartSubmit(q)
    \/ \E c \in NewConvIds : StartConvOk(c)

SpecTitle == Init /\ [][TitleNext]_vars

\* The frame decoder on its own: any body, read in any chunks.
ParseNext ==
    \/ \E k \in 1..(MaxSegments * 7) : ReadChunk(k)
    \/ ReadEnd

SpecParse == ParseInit /\ [][ParseNext]_vars

----------------------------------------------------------------------------
\* Vocabulary of the properties

\* Every event the consumer can hand to the callback of stream s.
AllEvents(s) ==
    Frames(s) \cup {StatusError("500", ErrorBody), FailureEvent, AbortEvent}

\* This step is the consumer task of stream s handing ev to its callback: a decoded
\* frame, the error of a non-success status, or the error of a rejected await.
Delivers(s, ev) ==
    \/ ReadFrame(s, ev)
    \/ ev = StatusError(streams[s].status, ErrorBody) /\ BodyText(s)
    \/ ev = FailureEvent /\ TransportFails(s)
    \/ ev = AbortEvent /\ AbortRejects(s)

\* Stream s was started and a later turn has been started since.
Superseded(s) == streams[s].pc # "none" /\ s < nStreams

\* This step issues the request of a new stream s.
Opens(s) == streams[s].pc = "none" /\ streams'[s].pc = "fetch"

\* The positions of the placeholder of turn s in a message list.
PlaceholderAt(msgs, s) == {i \in 1..Len(msgs) : msgs[i].id = AssistantId(s)}

Contains(str, token) == \E i \in 1..Len(str) : str[i] = token

----------------------------------------------------------------------------
\* C1: whenever a new stream request is issued while an earlier stream is still in
\* flight and has delivered no terminal event, stop() has been called on the
\* earlier stream's handle by then (its signal is aborted when the request goes out).
C1_StopBeforeNewStream ==
    [][\A s \in StreamIds : Opens(s) =>
          \A r \in StreamIds :
              (InFlight(r) /\ streams[r].terminal = "") => streams'[r].aborted]_vars

\* C2: an event delivered by a stream that a newer turn has superseded leaves the
\* visible message list as it was.
C2_SupersededEventsIgnored ==
    [][\A s \in StreamIds : \A ev \in AllEvents(s) :
          (Superseded(s) /\ Delivers(s, ev)) => messages' = messages]_vars

\* C3: no event is delivered for a stream once stop() has been called on its handle.
C3_CancellationSilent ==
    [][\A s \in StreamIds : \A ev \in AllEvents(s) :
          Delivers(s, ev) => ~streams[s].aborted]_vars

\* C4: once a terminal event (final or error) has been delivered for a stream, no
\* further event is delivered for it.
C4_ExactlyOnceTermination ==
    [][\A s \in StreamIds : \A ev \in AllEvents(s) :
          Delivers(s, ev) => streams[s].terminal = ""]_vars

\* C5: on a stream whose initial response had a non-success status the consumer
\* delivers exactly one event: it is the first, it is of type error, the task ends
\* with it, and unless reading the body itself failed its message holds the status
\* code and the body text. The controller sets the content of the turn's placeholder
\* to the error string, leaves the rest of the list alone, and the submit handler
\* sees no failure.
C5_NonSuccessStatus ==
    [][\A s \in StreamIds : streams[s].status = "500" =>
          /\ \A ev \in AllEvents(s) : Delivers(s, ev) =>
                /\ ~streams[s].any
                /\ streams'[s].pc = "done"
                /\ ev.type = "error"
                /\ ev \notin {FailureEvent, AbortEvent} =>
                      Contains(ev.error, "500") /\ Contains(ev.error, "overloaded")
                /\ Len(messages') = Len(messages)
                /\ \A i \in 1..Len(messages) :
                      messages'[i] =
                          IF messages[i].id = AssistantId(s)
                          THEN [messages[i] EXCEPT !.content = <<"Error: ">> \o ev.error]
                          ELSE messages[i]
                /\ UNCHANGED <<pc, alert, isLoading>>
          /\ (streams[s].pc = "body" /\ streams'[s].pc = "done") =>
                \E ev \in AllEvents(s) : Delivers(s, ev)]_vars

\* A placeholder shows the error string of a non-success response.
C5_Witness ==
    \E i \in 1..Len(messages) :
        /\ messages[i].role = "assistant"
        /\ messages[i].content = <<"Error: ", "500", " ", "overloaded">>

\* The final_output a final event supplies (in its result payload), or the empty string.
SuppliedFinalOutput(ev) ==
    IF ev.result # Null THEN Val(ev.result).final_output
    ELSE IF ev.workflow_result # Null THEN Val(ev.workflow_result).final_output
    ELSE ev.final_output

\* C6: when a final event without assistant_message is processed for a turn whose
\* earlier events were partial (or status) events, the turn's placeholder gets the
\* final_output if the event supplies one, and otherwise holds the concatenation of
\* the delivered fragments in delivery order.
C6_ConcatenationOfPartials ==
    [][\A s \in StreamIds : \A ev \in AllEvents(s) :
          ( /\ Delivers(s, ev)
            /\ ev.type = "final" /\ ev.assistant_message = Null
            /\ streams[s].terminal = "" ) =>
          \A i \in PlaceholderAt(messages', s) :
              messages'[i].content =
                  IF SuppliedFinalOutput(ev) # <<>>
                  THEN SuppliedFinalOutput(ev) ELSE streams[s].acc]_vars

\* Two fragments then a final event: the placeholder holds their concatenation.
C6_Witness ==
    \E s \in StreamIds :
        /\ streams[s].terminal = "final"
        /\ streams[s].acc = <<"a", "b">>
        /\ \E i \in PlaceholderAt(messages, s) : messages[i].content = <<"a", "b">>

\* C7: a final event carrying an assistant message puts that message where the
\* turn's placeholder was; the length of the list and all other entries stay.
C7_FinalReplacesPlaceholder ==
    [][\A s \in StreamIds : \A ev \in AllEvents(s) :
          (Delivers(s, ev) /\ ev.type = "final" /\ ev.assistant_message # Null) =>
          /\ Len(messages') = Len(messages)
          /\ \A i \in 1..Len(messages) :
                messages'[i] =
                    IF messages[i].id = AssistantId(s)
                    THEN Val(ev.assistant_message) ELSE messages[i]]_vars

\* The first turn's placeholder has been replaced, in second position, by the
\* backend's record while the second turn's entries follow it.
C7_Witness ==
    /\ Len(messages) = 4
    /\ messages[2] = Message(<<"asst", 1>>, "c1", "assistant", <<"A">>)
    /\ messages[4].id = AssistantId(2)

\* C8: a partial event appends its fragment to the content of the turn's placeholder
\* and changes nothing else of the list, the current conversation or the result.
C8_PartialAppends ==
    [][\A s \in StreamIds : \A ev \in AllEvents(s) :
          (Delivers(s, ev) /\ ev.type = "partial") =>
          /\ Len(messages') = Len(messages)
          /\ \A i \in 1..Len(messages) :
                messages'[i] =
                    IF messages[i].id = AssistantId(s)
                    THEN [messages[i] EXCEPT !.content = messages[i].content \o ev.partial]
                    ELSE messages[i]
          /\ UNCHANGED <<currentConversation, workflowResult>>]_vars

\* A second fragment has been appended to the placeholder of the second turn.
C8_Witness ==
    /\ Len(messages) = 4
    /\ streams[2].acc = <<"a", "b">>
    /\ messages[4].id = AssistantId(2)
    /\ messages[4].content = <<"a", "b">>
    /\ messages[4].role = "assistant"

\* C9: an error event sets the placeholder's content to the formatted error and
\* leaves the other messages; after it no event of the same stream changes the
\* placeholder's content, and no request is issued by the event.
C9_ErrorIsFinalRecord ==
    [][\A s \in StreamIds : \A ev \in AllEvents(s) : Delivers(s, ev) =>
          /\ ev.type = "error" =>
                \A i \in 1..Len(messages) :
                    messages[i].id # AssistantId(s) => messages'[i] = messages[i]
          /\ streams[s].terminal = "error" =>
                \A i \in PlaceholderAt(messages, s) :
                    messages'[i].content = messages[i].content
          /\ nStreams' = nStreams]_vars

\* C10: when conversation creation fails in handleStartAnalysis, the failure is
\* reported and the session is idle again: no conversation, no message, no
\* user-message or stream request, and a new start is accepted.
C10_FailedStartLeavesIdle ==
    [][(pc = "start_conv" /\ pc' = "idle") =>
          /\ alert' # Null
          /\ currentConversation' = Null
          /\ messages' = <<>>
          /\ nStreams' = nStreams /\ serverMsgs' = serverMsgs
          /\ StartAccepted']_vars

----------------------------------------------------------------------------
\* C11: stop() on a handle is idempotent and total: a second call leaves the state
\* of a single call, a call on a stopped handle changes nothing, and a call on the
\* handle of a finished stream leaves it finished; no other stream is touched.
C11_StopIdempotent ==
    \A s \in StreamIds :
        LET once == Stop(streams, Some(s)) IN
        /\ Stop(once, Some(s)) = once
        /\ once[s].aborted
        /\ once[s].pc = streams[s].pc
        /\ \A r \in StreamIds \ {s} : once[r] = streams[r]
        /\ streams[s].aborted => once = streams

\* stop() has been called on the handle of a stream that is in flight, and on the
\* handle of a stream that had already ended.
C11_Witness ==
    /\ \E s \in StreamIds : InFlight(s) /\ streams[s].aborted
    /\ \E s \in StreamIds : streams[s].pc = "done" /\ streams[s].aborted

\* C12: when the component is torn down, every stream still in flight has had
\* stop() called on its handle, whichever handler started it.
C12_TeardownStopsStreams ==
    [][(pc # "unmounted" /\ pc' = "unmounted") =>
          \A s \in StreamIds : InFlight(s) => streams'[s].aborted]_vars

\* C13: a startSession reaches the creation of the user's message only from the
\* creation of the conversation, and opens its stream only from the creation of the
\* user's message, stored against the conversation just created; when the stream is
\* opened the list is the user's message followed by an empty assistant placeholder
\* of that conversation.
C13_StartSessionOrder ==
    [][/\ (pc # "start_msg" /\ pc' = "start_msg") =>
             /\ pc = "start_conv"
             /\ local'.conv # Null
             /\ serverMsgs' = serverMsgs /\ nStreams' = nStreams
       /\ \A s \in StreamIds : (Opens(s) /\ streams'[s].kind = "start") =>
             /\ pc = "start_msg"
             /\ local.conv # Null
             /\ Len(serverMsgs') = Len(serverMsgs) + 1
             /\ LET cid == Val(local.conv).id
                    um == serverMsgs'[Len(serverMsgs')] IN
                 /\ um.conversation_id = cid
                 /\ um.role = "user"
                 /\ um.content = local.query
                 /\ streams'[s].convId = cid
                 /\ messages' = <<um, Message(AssistantId(s), cid, "assistant", <<>>)>>]_vars

\* The stream of a startSession has just been requested.
C13_Witness ==
    /\ nStreams = 1
    /\ streams[1].pc = "fetch" /\ streams[1].kind = "start"
    /\ Len(messages) = 2
    /\ messages[1].role = "user"
    /\ messages[2] = AssistantPlaceholder(1, "c1")

\* The new list has the entries of the old one, in the same positions, each with
\* its identity kept or replaced by the backend's record of the reply.
KeepsEntries(old, new) ==
    /\ Len(new) = Len(old)
    /\ \A i \in 1..Len(old) :
          \/ new[i].id = old[i].id
          \/ old[i].id[1] = "stream" /\ new[i].id[1] = "asst"

\* C14: the message list is append-only within a session: a sendMessage whose user
\* message was stored appends that message and then the placeholder, and every other
\* step keeps the entries and their order. (The steps that begin or end a session,
\* which install or clear the list, are not constrained.)
C14_AppendOnly ==
    [][IF pc = "send_msg" /\ pc' = "idle" /\ alert' = Null
       THEN /\ Len(messages') = Len(messages) + 2
            /\ SubSeq(messages', 1, Len(messages)) = messages
            /\ messages'[Len(messages) + 1].role = "user"
            /\ messages'[Len(messages) + 2] =
                   AssistantPlaceholder(nStreams', Val(local.conv).id)
       ELSE (pc' = pc /\ hasStarted' = hasStarted) =>
                KeepsEntries(messages, messages')]_vars

\* The result payload a final event carries: result, else workflow_result.
CarriedResult(ev) ==
    IF ev.result # Null THEN ev.result ELSE ev.workflow_result

\* C15: a final event sets the structured result to the payload it carries, and the
\* current conversation takes the identity the event carries if that differs from
\* the session's; otherwise the current conversation is unchanged.
C15_FinalSetsResult ==
    [][\A s \in StreamIds : \A ev \in AllEvents(s) :
          (pc # "unmounted" /\ Delivers(s, ev) /\ ev.type = "final") =>
          /\ workflowResult' = CarriedResult(ev)
          /\ IF /\ ev.conversation_id # ""
                /\ \/ currentConversation = Null
                   \/ Val(currentConversation).id # ev.conversation_id
             THEN /\ currentConversation' # Null
                  /\ Val(currentConversation').id = ev.conversation_id
             ELSE currentConversation' = currentConversation]_vars

----------------------------------------------------------------------------
\* An entity payload: an object whose id is a non-empty string.
IsEntity(v) == v.t = "obj" /\ Get(v, "id").t = "str" /\ Get(v, "id").s # ""

\* C16: conversationsApi.create resolves, for a payload that is a bare string, with
\* an entity whose id is that string; for a wrapper {data: {id: x}}, with id x; for
\* a non-empty array of entities, with the id of the first.
C16_NormalizerShapes ==
    (restCall.op = "conversations.create" /\ restCall.response.ok) =>
        LET p == restCall.response.json
            id == Get(restResult.value, "id") IN
        /\ p.t = "str" => restResult.kind = "value" /\ id = p
        /\ (p.t = "obj" /\ Len(p.f) = 1 /\ p.f[1][1] = "data" /\ IsEntity(p.f[1][2])) =>
              restResult.kind = "value" /\ id = Get(p.f[1][2], "id")
        /\ (IsArray(p) /\ p.items # <<>>
               /\ \A i \in 1..Len(p.items) : IsEntity(p.items[i])) =>
              restResult.kind = "value" /\ id = Get(p.items[1], "id")

\* An array of two entities has been normalized to the identity of the first.
C16_Witness ==
    /\ restCall.op = "conversations.create"
    /\ restCall.response.json = JArr(<<Entity("a"), Entity("b")>>)
    /\ Get(restResult.value, "id") = JStr("a")

\* C17: a list operation whose request is answered with a success status resolves
\* with a sequence, and with the empty sequence when the payload is neither an
\* array nor an object holding an array under the operation's key.
C17_ListDefaultsEmpty ==
    ( /\ ListKey(restCall.op) # ""
      /\ restCall.response.ok
      /\ restCall.op = "messages.getByConversation" => restCall.arg # "" ) =>
        LET p == restCall.response.json IN
        /\ restResult.kind = "value"
        /\ IsArray(restResult.value)
        /\ (~IsArray(p) /\ ~(p.t = "obj" /\ IsArray(Get(p, ListKey(restCall.op))))) =>
              restResult.value = JArr(<<>>)

\* C18: an operation whose request is answered with a non-success status throws an
\* error whose message holds the status code and the body text.
C18_RestErrorsCarryStatus ==
    ( /\ restCall.op # ""
      /\ ~restCall.response.ok
      /\ restCall.op \in {"messages.getByConversation", "messages.create"} =>
             restCall.arg # "" ) =>
        /\ restResult.kind = "error"
        /\ Contains(restResult.message, restCall.response.status)
        /\ \A i \in 1..Len(restCall.response.text) :
              Contains(restResult.message, restCall.response.text[i])

\* The frames of a body: the byte runs that end at a blank-line boundary, the
\* boundaries taken from the left.
RECURSIVE FramesOf(_)
FramesOf(bytes) ==
    LET B == {i \in 1..(Len(bytes) - 1) : bytes[i] = LF /\ bytes[i + 1] = LF} IN
    IF B = {} THEN <<>>
    ELSE LET i == CHOOSE b \in B : \A c \in B : b <= c
         IN <<SubSeq(bytes, 1, i - 1)>> \o FramesOf(SubSeq(bytes, i + 2, Len(bytes)))

\* A frame decodes as event e: after the optional prefix it is the JSON text of e,
\* with nothing but white space around it.
DecodesAs(frame, e) ==
    LET body == IF Len(frame) >= 2 /\ frame[1] = "data" /\ frame[2] = ": "
                THEN SubSeq(frame, 3, Len(frame)) ELSE frame
    IN \E i \in 1..Len(body) :
          /\ i + 2 <= Len(body)
          /\ SubSeq(body, i, i + 2) = <<"{", e, "}">>
          /\ \A j \in 1..Len(body) : (j < i \/ j > i + 2) => body[j] = LF

\* The events of the frames of a list that decode, in order.
RECURSIVE DecodedEvents(_)
DecodedEvents(fs) ==
    IF fs = <<>> THEN <<>>
    ELSE (IF \E e \in {"1", "2"} : DecodesAs(Head(fs), e)
          THEN <<CHOOSE e \in {"1", "2"} : DecodesAs(Head(fs), e)>> ELSE <<>>)
             \o DecodedEvents(Tail(fs))

\* C19: a frame that does not decode delivers nothing and stops nothing: what has
\* been delivered is exactly the events of the frames read so far that decode, in
\* the order of the frames, those after an undecodable frame included.
C19_MalformedDiscarded ==
    delivered = DecodedEvents(FramesOf(got))

\* An undecodable frame was read, and the frame after it has been delivered.
C19_Witness ==
    /\ got = <<"oops", LF, LF, "data", ": ", "{", "1", "}", LF, LF>>
    /\ delivered = <<"1">>

\* C20: however the bytes read so far were split into reads, the events delivered
\* are those a single read of the same bytes delivers, the buffer is the fragment
\* after the last boundary, and no more events were delivered than boundaries read.
C20_ChunkingIrrelevant ==
    LET whole == OnChunk(<<>>, got) IN
    /\ delivered = whole.events
    /\ wire # <<>> => buffer = whole.buffer
    /\ Len(delivered) <= Len(FramesOf(got))

\* A frame has been read with half of its boundary: it is kept, not parsed.
C20_Witness ==
    /\ got = <<"{", "2", "}", LF, LF, "data", ": ", "{", "1", "}", LF>>
    /\ buffer = <<"data", ": ", "{", "1", "}", LF>>
    /\ delivered = <<"2">>

----------------------------------------------------------------------------
\* The title the prompt q is to get: q itself up to 50 characters, else its first
\* 50 characters and three dots.
ExpectedTitle(q) ==
    IF Len(q) <= 50 THEN q
    ELSE [i \in 1..53 |-> IF i <= 50 THEN q[i] ELSE "."]

\* C21: the conversation a startSession creates is titled with the prompt if that
\* has at most 50 characters, else with its first 50 characters followed by "...".
C21_TitleTruncation ==
    (pc = "start_msg" /\ currentConversation # Null) =>
        Val(currentConversation).title = ExpectedTitle(initialQuery)

\* A prompt of 51 characters got a title of 53.
C21_Witness ==
    /\ pc = "start_msg" /\ currentConversation # Null
    /\ Len(initialQuery) = 51
    /\ Len(Val(currentConversation).title) = 53
    /\ Val(currentConversation).title[53] = "."

----------------------------------------------------------------------------
\* Stream s has been started and has neither been stopped nor delivered its
\* terminal event.
Running(s) == InFlight(s) /\ ~streams[s].aborted /\ streams[s].terminal = ""

\* C22: in every reachable state at most one stream has been started and has
\* neither been stopped nor delivered its terminal event.
C22_AtMostOneInFlight ==
    Cardinality({s \in StreamIds : Running(s)}) <= 1

\* C23: a final event delivered by a stream that a newer turn has superseded
\* changes neither the structured result nor the current conversation.
C23_LateFinalKeepsResult ==
    [][\A s \in StreamIds : \A ev \in AllEvents(s) :
          (Superseded(s) /\ ev.type = "final" /\ Delivers(s, ev)) =>
              /\ workflowResult' = workflowResult
              /\ currentConversation' = currentConversation]_vars

\* C24: a transport failure of a stream that was not stopped (the request or a
\* read rejecting) reaches the callback as one error event carrying the failure's
\* description: the turn's placeholder shows it, the rest of the list is kept, the
\* task ends with it so that no event follows, and nothing is thrown to the caller
\* (the submit handlers see no failure and report none).
C24_TransportFailureIsErrorEvent ==
    [][\A s \in StreamIds :
          /\ TransportFails(s) =>
                /\ FailureEvent.type = "error"
                /\ Contains(ErrorContent(FailureEvent), "Failed to fetch")
                /\ pc # "unmounted" =>
                      /\ Len(messages') = Len(messages)
                      /\ \A i \in 1..Len(messages) :
                            messages'[i] =
                                IF messages[i].id = AssistantId(s)
                                THEN [messages[i] EXCEPT
                                         !.content = <<"Error: ", "Failed to fetch">>]
                                ELSE messages[i]
                /\ streams'[s].pc = "done"
                /\ UNCHANGED <<pc, local, alert, isLoading, nStreams, workflowResult>>
          /\ \A ev \in AllEvents(s) : Delivers(s, ev) => streams[s].pc # "done"]_vars

\* The transport of a stream that was not stopped has failed while its placeholder
\* was in the list: the placeholder shows the failure's description.
C24_Witness ==
    \E s \in StreamIds :
        /\ streams[s].pc = "done" /\ ~streams[s].aborted
        /\ \E i \in PlaceholderAt(messages, s) :
              messages[i].content = <<"Error: ", "Failed to fetch">>

\* C25: a stream that was started and not stopped delivers exactly one terminal
\* event (final or error) however its response ends: when the task of such a stream
\* ends, either the terminal event was delivered before or the ending step delivers
\* it, and not both.
C25_OneTerminalEvent ==
    [][\A s \in StreamIds :
          (InFlight(s) /\ ~streams[s].aborted /\ streams'[s].pc = "done") =>
              (streams[s].terminal # "")
                  # (\E ev \in AllEvents(s) : IsTerminal(ev) /\ Delivers(s, ev))]_vars

\* C26: a startSession that fails at either of its requests (the creation of the
\* conversation, or the creation of the user's message once the conversation
\* exists) reports the failure and leaves no current conversation, no visible
\* message or placeholder, and no stream started.
C26_FailedStartAtAnyStep ==
    [][(pc \in {"start_conv", "start_msg"} /\ pc' = "idle" /\ alert' # Null) =>
          /\ ~isLoading'
          /\ currentConversation' = Null
          /\ messages' = <<>>
          /\ nStreams' = nStreams
          /\ streams' = streams]_vars

\* The message list holds the placeholder of some turn.
HoldsPlaceholder(msgs) == \E s \in StreamIds : PlaceholderAt(msgs, s) # {}

\* The message list holds a user's message.
HoldsUserMessage(msgs) == \E i \in 1..Len(msgs) : msgs[i].role = "user"

\* C28: the request creating a user's message and the request of a stream are
\* issued only with a non-empty conversation id, and whenever the message list
\* holds a placeholder or a user's message the session has a current conversation
\* with an id.
C28_IdentityBeforeMessages ==
    [][/\ (pc' # pc /\ pc' \in {"start_msg", "send_msg"}) =>
             (local'.conv # Null /\ Val(local'.conv).id # "")
       /\ \A s \in StreamIds : Opens(s) => streams'[s].convId # ""
       /\ (HoldsPlaceholder(messages') \/ HoldsUserMessage(messages')) =>
             (currentConversation' # Null /\ Val(currentConversation').id # "")]_vars

\* What a call of sendMessage may not touch when it issues no request.
sendFrame ==
    <<messages, workflowResult, isLoading, streamControllerRef, currentConversation,
      streams, nStreams, serverMsgs, pc, local, alert>>

\* C29: sendMessage called while the session has no current conversation issues no
\* request and leaves the message list, the structured result, the loading flag
\* and the stored stream handle as they are: no such call can change the state.
C29_SendWithoutConversation ==
    (SendAccepted /\ currentConversation = Null) =>
        ~ENABLED (\E content \in Contents :
                      SendSubmit(content) /\ sendFrame' # sendFrame)

\* The chat view is shown and accepts a message while the session has no current
\* conversation (after a failed start).
C29_Witness ==
    /\ SendAccepted /\ currentConversation = Null
    /\ ENABLED (\E content \in Contents : SendSubmit(content))

\* C30: when the creation of the user's message fails in sendMessage the failure
\* is reported and the loading flag cleared; neither the call nor its failure
\* installs a placeholder, starts a stream or touches the message list, the
\* current conversation, the structured result or the stored handle.
C30_FailedSendLeavesState ==
    [][/\ (pc # "send_msg" /\ pc' = "send_msg") =>
             UNCHANGED <<messages, currentConversation, workflowResult,
                         streamControllerRef, streams, nStreams, serverMsgs>>
       /\ (pc = "send_msg" /\ pc' = "idle" /\ alert' # Null) =>
             /\ alert' = Some("Failed to send message. Please try again.")
             /\ ~isLoading'
             /\ UNCHANGED <<messages, currentConversation, workflowResult,
                            streamControllerRef, streams, nStreams, serverMsgs>>]_vars

\* The creation of the user's message has failed in a sendMessage on a session
\* that shows messages of its conversation.
C30_Witness ==
    /\ pc = "idle" /\ ~isLoading
    /\ alert = Some("Failed to send message. Please try again.")
    /\ currentConversation # Null
    /\ messages # <<>>

\* The identity-like field a payload carries directly: id, else conversation_id.
DirectIdentity(p) == Or(Get(p, "id"), Get(p, "conversation_id"))

\* The properties of a payload that hold an entity, in key order.
NestedEntities(p) == SelectSeq(p.f, LAMBDA kv : IsEntity(kv[2]))

\* C27: for a payload object that holds an entity under some key,
\* conversationsApi.create resolves with the identity the payload carries directly
\* (id or conversation_id) when it carries one, and otherwise with the identity of
\* the first nested entity in key order.
C27_DirectIdentityPreferred ==
    ( /\ restCall.op = "conversations.create"
      /\ restCall.response.ok
      /\ restCall.response.json.t = "obj"
      /\ NestedEntities(restCall.response.json) # <<>> ) =>
        LET p == restCall.response.json IN
        /\ restResult.kind = "value"
        /\ Get(restResult.value, "id") =
              IF Truthy(DirectIdentity(p)) THEN DirectIdentity(p)
              ELSE Get(NestedEntities(p)[1][2], "id")

----------------------------------------------------------------------------
\* A submit handler is suspended at one of its requests.
Starting == pc \in {"start_conv", "start_msg", "send_msg"}

\* C31: the loading flag handed to the chat view is true in every state in which a
\* submit handler is at one of its requests or a stream of the session has neither
\* delivered its terminal event nor been stopped; while it is true the chat view
\* submits no message.
C31_LoadingWhileInFlight ==
    /\ (pc # "unmounted" /\ (Starting \/ \E s \in StreamIds : Running(s))) => isLoading
    /\ isLoading => ~ENABLED (\E content \in Contents : SendSubmit(content))

\* C32: the reload of the message list that a change of the current conversation
\* starts keeps the placeholder of every turn whose stream has not ended and has
\* delivered no terminal event: when the reload resolves, such a placeholder in the
\* list is still in the list, with its content.
C32_ReloadKeepsPlaceholder ==
    [][\A c \in ConvIds : LoadMessages(c) =>
          \A s \in StreamIds :
              (InFlight(s) /\ streams[s].terminal = "") =>
                  \A i \in PlaceholderAt(messages, s) :
                      \E j \in PlaceholderAt(messages', s) :
                          messages'[j].content = messages[i].content]_vars

\* The session has been reset and shows the start form: no current conversation,
\* no message.
ResetState ==
    /\ pc = "idle" /\ ~hasStarted
    /\ currentConversation = Null
    /\ messages = <<>>

\* C33: once the session has been reset with New Conversation, an event delivered
\* by a stream started before the reset, or a reload started before it, leaves the
\* current conversation absent and the message list empty.
C33_ResetStaysReset ==
    [][ResetState =>
          /\ \A s \in StreamIds : \A ev \in AllEvents(s) :
                Delivers(s, ev) => (currentConversation' = Null /\ messages' = <<>>)
          /\ \A c \in ConvIds :
                LoadMessages(c) => (currentConversation' = Null /\ messages' = <<>>)]_vars

\* C34: whenever the stream started last is in flight, the stored handle is the
\* handle of that stream, from the state in which the stream was started.
C34_HandleIsLatestStream ==
    (pc # "unmounted" /\ nStreams > 0 /\ InFlight(nStreams)) =>
        streamControllerRef = Some(nStreams)

\* C36: resetting the session with New Conversation leaves no structured result.
C36_ResetClearsResult ==
    [][NewConversation => workflowResult' = Null]_vars

\* The bytes of a body after its last blank-line boundary.
RECURSIVE TrailingOf(_)
TrailingOf(bytes) ==
    LET B == {i \in 1..(Len(bytes) - 1) : bytes[i] = LF /\ bytes[i + 1] = LF} IN
    IF B = {} THEN bytes
    ELSE LET i == CHOOSE b \in B : \A c \in B : b <= c
         IN TrailingOf(SubSeq(bytes, i + 2, Len(bytes)))

\* C35: once the body has ended, every frame of it that decodes has been delivered,
\* in order, the last frame included when no boundary follows it.
C35_TrailingFrameDelivered ==
    (wire = <<>> /\ got # <<>>) =>
        delivered = DecodedEvents(FramesOf(got) \o <<TrailingOf(got)>>)

\* C37: every accepted startSession or sendMessage clears the loading flag it set,
\* whichever of its requests succeeds or fails, provided each request resolves or
\* rejects in the end: the flag is never true forever.
C37_LoadingEventuallyCleared ==
    isLoading ~> ~isLoading

\* A startSession has failed at the creation of the user's message and a
\* sendMessage of the same session has opened its stream: both cleared the flag.
C37_Witness ==
    /\ ~isLoading /\ pc = "idle"
    /\ hasStarted /\ currentConversation # Null
    /\ nStreams = 1 /\ streams[1].kind = "send"


====
